---------------------------- MODULE Spec2Model ----------------------------
(***************************************************************************)
(* MartisGameEnv (zoo/assembly/martis_game/envs/martis_game_lightzero_env) *)
(* as a state machine: the adapter object's attributes, the Game engine it  *)
(* owns, the process-wide numpy random source, and one action per public    *)
(* method.  The Game engine (module `game`) is a collaborator whose code is *)
(* not part of the file; it is modelled from its interface: reset() yields  *)
(* a raw observation, step(a) yields (obs, rew, terminated, truncated,      *)
(* info) or raises for an action that is no index in [0, NUM_ACTIONS).      *)
(***************************************************************************)
EXTENDS Integers, Sequences, FiniteSets, TLC

(* ------------------------------ bounds -------------------------------- *)

\* Number of method calls explored on one adapter object.
MaxOps == 4

\* Game.NUM_ACTIONS and game.MAX_LINES: engine constants whose values are
\* not in the file; the values given here stand for them.
NUM_ACTIONS == 2

MAX_LINES == 2

(* ------------------------- program constants -------------------------- *)

\* gym.spaces.MultiBinary(1280) declared by __init__.
INIT_OBS_SIZE == 1280

\* Bits per line in my_space(): MAX_LINES * 64.
LINE_BITS == 64

\* self._action_space.seed(0)
DEFAULT_SPACE_SEED == 0

\* gym.spaces.Box(low=0.0, high=1.0, shape=(1,)): the declared reward range.
REWARD_LOW == 0

REWARD_HIGH == 1

\* 'to_play': -1
TO_PLAY == -1

(* ------------------------------ values -------------------------------- *)

\* An attribute that has not been assigned is <<>>; an assigned one is <<v>>.
Unset == <<>>

Some(v) == <<v>>

HasAttr(x) == x # <<>>

Val(x) == x[1]

\* Python values an action may be: an int, or a numpy array of one element
\* with the given shape (shape <<>> is a 0-dim array, <<1>> is shape (1,)).
IntAction(a) == [type |-> "int", shape |-> <<>>, item |-> a]

NdArray(shape, a) == [type |-> "ndarray", shape |-> shape, item |-> a]

\* Action values offered to step(): one below and one above the legal range.
ActionItems == (0 - 1) .. NUM_ACTIONS

Actions ==
    {IntAction(a) : a \in ActionItems}
        \cup {NdArray(<<1>>, a) : a \in ActionItems}

\* Raw observations of the engine (game.state()), kept abstract.
RawObs == {"s0", "s1"}

\* Rewards the engine returns, in whole units of the declared range.
Rewards == REWARD_LOW .. REWARD_HIGH

\* info mappings are sets of <<key, value>> pairs.
EngineInfos == {{}, {<<"lines", 1>>}}

HasKey(info, k) == \E p \in info : p[1] = k

Lookup(info, k) == (CHOOSE p \in info : p[1] = k)[2]

\* What Game.step returns when it returns.
Replies ==
    [obs : RawObs, rew : Rewards, terminated : BOOLEAN,
     truncated : BOOLEAN, info : EngineInfos]

\* Configurations handed to the constructor; the last has no replay_path.
Configs ==
    { [env_id |-> "MartisGame-v0", replay_path |-> "None"],
      [env_id |-> "MartisGame-v0", replay_path |-> "/cfg"],
      [env_id |-> "MartisGame-v0"] }

ReplayArgs == {"None", "/tmp/x"}

Seeds == {0, 1}

VARIABLES
    constructed,          \* __init__ returned an object
    cfg,                  \* self._cfg
    init_flag,            \* self._init_flag
    continuous,           \* self._continuous
    replay_path,          \* self._replay_path
    observation_space,    \* self._observation_space
    action_space,         \* self._action_space
    reward_space,         \* self._reward_space
    game,                 \* self.game
    eval_episode_return,  \* self._eval_episode_return (Unset until reset())
    seed_attr,            \* self._seed
    dynamic_seed,         \* self._dynamic_seed
    np_random,            \* numpy's process-wide random source
    last,                 \* the latest call: method, arguments, outcome
    lifecycle,            \* label of the latest call that returned
    episode_rewards,      \* rewards the engine returned since the last reset()
    nops                  \* number of calls made so far

adapter ==
    <<cfg, init_flag, continuous, replay_path, observation_space,
      action_space, reward_space, eval_episode_return, seed_attr,
      dynamic_seed>>

vars ==
    <<constructed, cfg, init_flag, continuous, replay_path,
      observation_space, action_space, reward_space, game,
      eval_episode_return, seed_attr, dynamic_seed, np_random, last,
      lifecycle, episode_rewards, nops>>


(* ------------------------- pure parts of the code ---------------------- *)

\* Variant: reset() declares the constructor's size again.
my_space_as_constructed == [kind |-> "MultiBinary", n |-> INIT_OBS_SIZE]

\* my_space(): MultiBinary(MAX_LINES * 64).
my_space == [kind |-> "MultiBinary", n |-> MAX_LINES * LINE_BITS]

\* Variant: the mask is one entry short.
ActionMaskShort(n) == [i \in 1 .. (n - 1) |-> 1]

\* np.ones(self.action_space.n, 'int8')
ActionMask(n) == [i \in 1 .. n |-> 1]

\* {'observation': obs, 'action_mask': action_mask, 'to_play': -1}
BuildObs(raw, space) ==
    [observation |-> raw, action_mask |-> ActionMask(space.n), to_play |-> TO_PLAY]

\* Variant: the shape-(1,) array is forwarded without being squeezed.
NormalizeActionNoSqueeze(action) == action

\* Variant: the action is clipped into [0, NUM_ACTIONS) before it is forwarded.
NormalizeActionClipped(action) ==
    [action EXCEPT
        !.shape = <<>>,
        !.item = IF @ < 0 THEN 0
                 ELSE IF @ > NUM_ACTIONS - 1 THEN NUM_ACTIONS - 1 ELSE @]

\* step(), lines 93-94: a numpy array of shape (1,) is squeezed to a 0-dim
\* array; every other value is left as it is.
NormalizeAction(action) ==
    IF action.type = "ndarray" /\ action.shape = <<1>>
    THEN [action EXCEPT !.shape = <<>>]
    ELSE action

\* The integer a value denotes when it is used as an index: an int or a 0-dim
\* integer array has one, an array of one or more dimensions has none.
ScalarIndex(value) == IF value.shape = <<>> THEN Some(value.item) ELSE Unset

\* Variant: both flags are required.
DoneBoth(terminated, truncated) == terminated /\ truncated

\* done = terminated or truncated
Done(terminated, truncated) == terminated \/ truncated

\* Variant: the reward overwrites the accumulator.
AccAfterStepOverwrites(acc, rew) == rew

\* Variant: the reward is not added.
AccAfterStepDropsReward(acc, rew) == acc

\* self._eval_episode_return += rew
AccAfterStep(acc, rew) == acc + rew

\* Variant: the key is written on every step.
InfoAfterStepAlways(info, done, acc) ==
    {p \in info : p[1] # "eval_episode_return"}
        \cup {<<"eval_episode_return", acc>>}

\* if done: info['eval_episode_return'] = self._eval_episode_return
InfoAfterStep(info, done, acc) ==
    IF done
    THEN {p \in info : p[1] # "eval_episode_return"}
            \cup {<<"eval_episode_return", acc>>}
    ELSE info

\* BaseEnvTimestep(obs, rew, done, info)
Timestep(reply, done, acc, space) ==
    [obs |-> BuildObs(reply.obs, space), reward |-> reply.rew, done |-> done,
     info |-> InfoAfterStep(reply.info, done, acc)]

\* Variant: reset() creates the accumulator only when it is missing.
AccAfterResetKeeps ==
    IF HasAttr(eval_episode_return) THEN eval_episode_return ELSE Some(0)

\* self._eval_episode_return = 0 in reset()
AccAfterReset == Some(0)

\* Variant: close() marks the environment initialized.
FlagAfterCloseSet(flag) == TRUE

\* Variant: close() flips the flag.
FlagAfterCloseFlips(flag) == ~flag

\* self._init_flag = False in close()
FlagAfterClose(flag) == FALSE

\* Variant: the argument is stored as given, None included.
ReplayPathAsGiven(arg) == arg

\* enable_save_replay: None is replaced by './video'.
ReplayPathFor(arg) == IF arg = "None" THEN "./video" ELSE arg

(* ------------------------------ the engine ----------------------------- *)

\* Game(): a fresh engine; `episodes` counts reset() calls, `moves` the
\* actions accepted since the latest reset (or since construction).
NewGame == [episodes |-> 0, moves |-> 0]

GameReset(g) == [episodes |-> g.episodes + 1, moves |-> 0]

\* Game.step raises exactly for an action that is no index in range.
GameAccepts(value) ==
    /\ HasAttr(ScalarIndex(value))
    /\ Val(ScalarIndex(value)) \in 0 .. (NUM_ACTIONS - 1)

GameStep(g) == [g EXCEPT !.moves = @ + 1]

(* ---------------------------- construction ----------------------------- *)

\* Variant: a missing replay_path reads as None (cfg.get('replay_path')).
ReadReplayPathLenient(c) ==
    IF "replay_path" \in DOMAIN c THEN Some(c.replay_path) ELSE Some("None")

\* cfg.replay_path (line 47): the attribute read raises when the field is
\* absent (Unset), and yields the field's value, None included, otherwise.
ReadReplayPath(c) ==
    IF "replay_path" \in DOMAIN c THEN Some(c.replay_path) ELSE Unset

\* __init__(cfg) for a cfg with replay_path.
Constructed(c) ==
    /\ constructed = TRUE
    /\ cfg = c
    /\ init_flag = FALSE
    /\ continuous = FALSE
    /\ replay_path = Val(ReadReplayPath(c))
    /\ observation_space = [kind |-> "MultiBinary", n |-> INIT_OBS_SIZE]
    /\ action_space = [kind |-> "Discrete", n |-> NUM_ACTIONS,
                       seed |-> DEFAULT_SPACE_SEED, draws |-> 0]
    /\ reward_space = [kind |-> "Box", low |-> REWARD_LOW, high |-> REWARD_HIGH]
    /\ game = NewGame
    /\ eval_episode_return = Unset
    /\ seed_attr = Unset
    /\ dynamic_seed = Unset
    /\ np_random = [seed |-> Unset, reseeds |-> 0]
    /\ last = [op |-> "__init__", outcome |-> "ok"]
    /\ lifecycle = "Uninitialized"
    /\ episode_rewards = <<>>
    /\ nops = 0

\* __init__(cfg) raises at cfg.replay_path (line 47) before any space is
\* declared or the engine is instantiated: no object results.
ConstructionFailed(c) ==
    /\ constructed = FALSE
    /\ cfg = c
    /\ init_flag = FALSE
    /\ continuous = FALSE
    /\ replay_path = "None"
    /\ observation_space = [kind |-> "none", n |-> 0]
    /\ action_space = [kind |-> "none", n |-> 0, seed |-> 0, draws |-> 0]
    /\ reward_space = [kind |-> "none", low |-> 0, high |-> 0]
    /\ game = [episodes |-> 0 - 1, moves |-> 0]
    /\ eval_episode_return = Unset
    /\ seed_attr = Unset
    /\ dynamic_seed = Unset
    /\ np_random = [seed |-> Unset, reseeds |-> 0]
    /\ last = [op |-> "__init__", outcome |-> "AttributeError"]
    /\ lifecycle = "Uninitialized"
    /\ episode_rewards = <<>>
    /\ nops = 0

Init ==
    \E c \in Configs :
        IF HasAttr(ReadReplayPath(c)) THEN Constructed(c) ELSE ConstructionFailed(c)

CanCall == constructed /\ nops < MaxOps

(* ------------------------------- reset() ------------------------------- *)

\* Variant: a closed adapter refuses reset().
ResetRefusedOnceClosed(raw) ==
    /\ CanCall
    /\ IF lifecycle = "Closed"
       THEN /\ last' = [op |-> "reset", outcome |-> "RuntimeError",
                        from |-> lifecycle, before |-> eval_episode_return]
            /\ UNCHANGED <<game, observation_space, eval_episode_return,
                           lifecycle, episode_rewards>>
       ELSE /\ game' = GameReset(game)
            /\ observation_space' = my_space
            /\ eval_episode_return' = Some(0)
            /\ last' = [op |-> "reset", outcome |-> "ok", from |-> lifecycle,
                        before |-> eval_episode_return,
                        ret |-> BuildObs(raw, action_space)]
            /\ lifecycle' = "Active"
            /\ episode_rewards' = <<>>
    /\ nops' = nops + 1
    /\ UNCHANGED <<constructed, cfg, init_flag, continuous, replay_path,
                   action_space, reward_space, seed_attr, dynamic_seed,
                   np_random>>

Reset(raw) ==
    /\ CanCall
    /\ game' = GameReset(game)
    /\ observation_space' = my_space
    /\ eval_episode_return' = AccAfterReset
    /\ last' = [op |-> "reset", outcome |-> "ok", from |-> lifecycle,
                before |-> eval_episode_return,
                ret |-> BuildObs(raw, action_space)]
    /\ lifecycle' = "Active"
    /\ episode_rewards' = <<>>
    /\ nops' = nops + 1
    /\ UNCHANGED <<constructed, cfg, init_flag, continuous, replay_path,
                   action_space, reward_space, seed_attr, dynamic_seed,
                   np_random>>

(* -------------------------------- step() ------------------------------- *)

\* Variant: an engine error makes step() start the return over at 0.
StepOutcomeClearsOnError(action, reply) ==
    LET forwarded == NormalizeAction(action)
        done == Done(reply.terminated, reply.truncated)
    IN  IF ~GameAccepts(forwarded)
        THEN [outcome |-> "EngineError", forwarded |-> forwarded,
              game |-> game,
              acc |-> IF HasAttr(eval_episode_return) THEN Some(0) ELSE Unset]
        ELSE IF ~HasAttr(eval_episode_return)
        THEN [outcome |-> "AttributeError", forwarded |-> forwarded,
              game |-> GameStep(game), acc |-> eval_episode_return]
        ELSE LET acc == AccAfterStep(Val(eval_episode_return), reply.rew)
             IN  [outcome |-> "ok", forwarded |-> forwarded,
                  game |-> GameStep(game), acc |-> Some(acc),
                  ret |-> Timestep(reply, done, acc, action_space)]

\* Variant: step() looks for the accumulator before it calls the engine.
StepOutcomeChecksFirst(action, reply) ==
    LET forwarded == NormalizeAction(action)
        done == Done(reply.terminated, reply.truncated)
    IN  IF ~HasAttr(eval_episode_return)
        THEN [outcome |-> "AttributeError", forwarded |-> forwarded,
              game |-> game, acc |-> eval_episode_return]
        ELSE IF ~GameAccepts(forwarded)
        THEN [outcome |-> "EngineError", forwarded |-> forwarded,
              game |-> game, acc |-> eval_episode_return]
        ELSE LET acc == AccAfterStep(Val(eval_episode_return), reply.rew)
             IN  [outcome |-> "ok", forwarded |-> forwarded,
                  game |-> GameStep(game), acc |-> Some(acc),
                  ret |-> Timestep(reply, done, acc, action_space)]

\* What one call step(action) does from the current state when the engine,
\* if it accepts the forwarded action, answers `reply` (lines 93-106):
\*   line 96 raises        -> nothing of the adapter or the engine changes;
\*   line 99 raises        -> the engine has moved, no accumulator exists;
\*   otherwise             -> accumulator updated, timestep returned.
StepOutcome(action, reply) ==
    LET forwarded == NormalizeAction(action)
        done == Done(reply.terminated, reply.truncated)
    IN  IF ~GameAccepts(forwarded)
        THEN [outcome |-> "EngineError", forwarded |-> forwarded,
              game |-> game, acc |-> eval_episode_return]
        ELSE IF ~HasAttr(eval_episode_return)
        THEN [outcome |-> "AttributeError", forwarded |-> forwarded,
              game |-> GameStep(game), acc |-> eval_episode_return]
        ELSE LET acc == AccAfterStep(Val(eval_episode_return), reply.rew)
             IN  [outcome |-> "ok", forwarded |-> forwarded,
                  game |-> GameStep(game), acc |-> Some(acc),
                  ret |-> Timestep(reply, done, acc, action_space)]

\* A reply standing for "the engine did not answer".
NoReply ==
    [obs |-> "s0", rew |-> 0, terminated |-> FALSE, truncated |-> FALSE,
     info |-> {}]

\* Game.step raised: the exception leaves step() at line 96.
StepEngineRaises(action) ==
    /\ \E out \in {StepOutcome(action, NoReply)} :
           /\ out.outcome = "EngineError"
           /\ game' = out.game
           /\ eval_episode_return' = out.acc
           /\ last' = [op |-> "step", outcome |-> out.outcome,
                       action |-> action, forwarded |-> out.forwarded,
                       from |-> lifecycle, before |-> eval_episode_return]
    /\ nops' = nops + 1
    /\ UNCHANGED <<constructed, cfg, init_flag, continuous, replay_path,
                   observation_space, action_space, reward_space, seed_attr,
                   dynamic_seed, np_random, lifecycle, episode_rewards>>

\* Game.step returned, but reset() never ran: `+=` on the missing attribute
\* raises at line 99, after the engine has moved.
StepNoAccumulator(action) ==
    /\ \E out \in {StepOutcome(action, NoReply)} :
           /\ out.outcome = "AttributeError"
           /\ game' = out.game
           /\ eval_episode_return' = out.acc
           /\ last' = [op |-> "step", outcome |-> out.outcome,
                       action |-> action, forwarded |-> out.forwarded,
                       from |-> lifecycle]
    /\ nops' = nops + 1
    /\ UNCHANGED <<constructed, cfg, init_flag, continuous, replay_path,
                   observation_space, action_space, reward_space, seed_attr,
                   dynamic_seed, np_random, lifecycle, episode_rewards>>

\* Game.step returned and the accumulator exists: lines 97-106.
StepReturns(action, reply) ==
    /\ \E out \in {StepOutcome(action, reply)} :
           /\ out.outcome = "ok"
           /\ game' = out.game
           /\ eval_episode_return' = out.acc
           /\ last' = [op |-> "step", outcome |-> out.outcome,
                       action |-> action, forwarded |-> out.forwarded,
                       from |-> lifecycle, reply |-> reply, ret |-> out.ret,
                       prev_outcome |-> last.outcome]
           /\ lifecycle' = IF out.ret.done THEN "Terminal" ELSE "Active"
    /\ episode_rewards' = Append(episode_rewards, reply.rew)
    /\ nops' = nops + 1
    /\ UNCHANGED <<constructed, cfg, init_flag, continuous, replay_path,
                   observation_space, action_space, reward_space, seed_attr,
                   dynamic_seed, np_random>>

Step ==
    /\ CanCall
    /\ \/ \E action \in Actions : StepEngineRaises(action)
       \/ \E action \in Actions : StepNoAccumulator(action)
       \/ \E action \in Actions :
            /\ StepOutcome(action, NoReply).outcome = "ok"
            /\ \E reply \in Replies : StepReturns(action, reply)

(* ------------------------------- close() ------------------------------- *)

Close ==
    /\ CanCall
    /\ init_flag' = FlagAfterClose(init_flag)
    /\ last' = [op |-> "close", outcome |-> "ok", prev |-> last.op,
                from |-> lifecycle]
    /\ lifecycle' = "Closed"
    /\ nops' = nops + 1
    /\ UNCHANGED <<constructed, cfg, continuous, replay_path,
                   observation_space, action_space, reward_space, game,
                   eval_episode_return, seed_attr, dynamic_seed, np_random,
                   episode_rewards>>

(* -------------------------------- seed() ------------------------------- *)

\* Variant: the seed is recorded but numpy's source is left alone.
NpRandomNotReseeded(rng, s) == rng

\* np.random.seed(self._seed): the source restarts from s.
NpRandomAfterSeed(rng, s) == [seed |-> Some(s), reseeds |-> rng.reseeds + 1]

Seed(s, dynamic) ==
    /\ CanCall
    /\ seed_attr' = Some(s)
    /\ dynamic_seed' = Some(dynamic)
    /\ np_random' = NpRandomAfterSeed(np_random, s)
    /\ last' = [op |-> "seed", outcome |-> "ok", seed |-> s,
                dynamic |-> dynamic]
    /\ nops' = nops + 1
    /\ UNCHANGED <<constructed, cfg, init_flag, continuous, replay_path,
                   observation_space, action_space, reward_space, game,
                   eval_episode_return, lifecycle, episode_rewards>>

(* -------------------------- enable_save_replay() ----------------------- *)

EnableSaveReplay(arg) ==
    /\ CanCall
    /\ replay_path' = ReplayPathFor(arg)
    /\ last' = [op |-> "enable_save_replay", outcome |-> "ok", arg |-> arg]
    /\ nops' = nops + 1
    /\ UNCHANGED <<constructed, cfg, init_flag, continuous,
                   observation_space, action_space, reward_space, game,
                   eval_episode_return, seed_attr, dynamic_seed, np_random,
                   lifecycle, episode_rewards>>

(* ----------------------------- random_action() ------------------------- *)

\* action_space.sample() draws from the space's own generator (seeded 0 at
\* construction); the drawn value is wrapped as an int64 array of shape (1,).
\* Variant: the sample is returned as a 0-dim array, not wrapped in a list.
WrapSampleBare(sample) == NdArray(<<>>, sample)

\* to_ndarray([random_action], dtype=np.int64): an array of shape (1,).
WrapSample(sample) == NdArray(<<1>>, sample)

\* Discrete(n).sample(): an integer of 0 .. n-1.
SampleRange(space) == 0 .. (space.n - 1)

RandomAction(sample) ==
    /\ CanCall
    /\ sample \in SampleRange(action_space)
    /\ action_space' = [action_space EXCEPT !.draws = @ + 1]
    /\ last' = [op |-> "random_action", outcome |-> "ok",
                ret |-> WrapSample(sample)]
    /\ nops' = nops + 1
    /\ UNCHANGED <<constructed, cfg, init_flag, continuous, replay_path,
                   observation_space, reward_space, game,
                   eval_episode_return, seed_attr, dynamic_seed, np_random,
                   lifecycle, episode_rewards>>

(* ---------------------------- specification ---------------------------- *)

Next ==
    \/ \E raw \in RawObs : Reset(raw)
    \/ Step
    \/ Close
    \/ \E s \in Seeds, dynamic \in BOOLEAN : Seed(s, dynamic)
    \/ \E arg \in ReplayArgs : EnableSaveReplay(arg)
    \/ \E sample \in 0 .. (NUM_ACTIONS - 1) : RandomAction(sample)

Spec == Init /\ [][Next]_vars


(* ------------------------------ properties ----------------------------- *)

RECURSIVE SumSeq(_)
SumSeq(q) == IF q = <<>> THEN 0 ELSE q[1] + SumSeq(Tail(q))

StepReturned == last.op = "step" /\ last.outcome = "ok"

InRange(a) == a \in 0 .. (NUM_ACTIONS - 1)

\* C1: whenever the accumulator exists, it equals the sum of the rewards the
\* engine returned for the steps taken since the most recent reset().
C1_AccumulatorIsSumOfRewards ==
    HasAttr(eval_episode_return)
        => Val(eval_episode_return) = SumSeq(episode_rewards)

\* The second step of an episode has returned and both steps were rewarded.
C1_Witness ==
    /\ StepReturned
    /\ episode_rewards = <<1, 1>>
    /\ eval_episode_return = Some(2)

\* C2: the info of a returned timestep has the key eval_episode_return
\* exactly when the timestep's done is true, and then its value is the
\* accumulator as it stands after the step's reward was added.
C2_EvalReturnIffDone ==
    StepReturned =>
        /\ HasKey(last.ret.info, "eval_episode_return") <=> last.ret.done
        /\ last.ret.done =>
             /\ Lookup(last.ret.info, "eval_episode_return")
                    = Val(eval_episode_return)
             /\ Lookup(last.ret.info, "eval_episode_return")
                    = SumSeq(episode_rewards)

\* A terminal step of a rewarded episode, with the engine's own info kept.
C2_Witness ==
    /\ StepReturned
    /\ last.ret.done
    /\ HasKey(last.ret.info, "lines")
    /\ Lookup(last.ret.info, "eval_episode_return") = 2

\* C3: the done flag of a returned timestep is TRUE exactly when at least one
\* of the two flags the engine returned for that step is TRUE.
C3_DoneIsTerminatedOrTruncated ==
    StepReturned =>
        last.ret.done =
            CASE last.reply.terminated /\ last.reply.truncated -> TRUE
              [] last.reply.terminated /\ ~last.reply.truncated -> TRUE
              [] ~last.reply.terminated /\ last.reply.truncated -> TRUE
              [] ~last.reply.terminated /\ ~last.reply.truncated -> FALSE

\* A step the engine truncated without terminating it.
C3_Witness ==
    /\ StepReturned
    /\ ~last.reply.terminated
    /\ last.reply.truncated
    /\ last.ret.done

\* C4: right after any reset() the accumulator exists and is 0.
C4_ResetZeroesAccumulator ==
    last.op = "reset" => eval_episode_return = Some(0)

\* A reset in the middle of an episode that had already collected reward.
C4_Witness ==
    /\ last.op = "reset"
    /\ last.from = "Active"
    /\ last.before = Some(1)
    /\ eval_episode_return = Some(0)

\* One more call has been made in this step of the behaviour.
Called(op) == nops' = nops + 1 /\ last'.op = op

Passive == {"seed", "enable_save_replay", "random_action"}

\* C5 as stated: once a step has returned done, only reset() leads back to
\* Active, and a further step() neither returns a timestep nor changes the
\* accumulator.
C5_TerminalStepIsNoTransition ==
    [][ lifecycle = "Terminal" =>
          /\ Called("step") =>
                /\ last'.outcome # "ok"
                /\ eval_episode_return' = eval_episode_return
          /\ lifecycle' = "Active" => Called("reset")
      ]_vars

\* C5 as amended: from Terminal, reset() leads to Active with the accumulator
\* at 0; step() is not blocked: the action is forwarded to the engine and, when
\* the engine returns, a timestep is returned and its reward is added to the
\* accumulator (Active again if that timestep's done is false); a step() the
\* engine rejects, seed(), enable_save_replay() and random_action() leave the
\* adapter in Terminal with the accumulator as it was.
C5_TerminalResetOrStepOn ==
    [][ lifecycle = "Terminal" =>
          /\ Called("reset") =>
                /\ last'.outcome = "ok"
                /\ lifecycle' = "Active"
                /\ eval_episode_return' = Some(0)
          /\ Called("step") =>
                /\ ScalarIndex(last'.forwarded) = Some(last'.action.item)
                /\ last'.outcome = "ok" <=> InRange(last'.action.item)
                /\ last'.outcome = "ok" =>
                      /\ eval_episode_return'
                            = Some(Val(eval_episode_return) + last'.reply.rew)
                      /\ last'.ret.reward = last'.reply.rew
                      /\ lifecycle'
                            = IF last'.ret.done THEN "Terminal" ELSE "Active"
                /\ last'.outcome # "ok" =>
                      /\ eval_episode_return' = eval_episode_return
                      /\ lifecycle' = "Terminal"
          /\ (nops' = nops + 1 /\ last'.op \in Passive) =>
                /\ eval_episode_return' = eval_episode_return
                /\ lifecycle' = "Terminal"
      ]_vars

\* A rewarded step taken, and answered, after the episode had ended.
C5_Witness ==
    /\ StepReturned
    /\ last.from = "Terminal"
    /\ last.reply.rew = 1
    /\ lifecycle = "Active"

C7_CloseForgivingIdempotent ==
    [][ Called("close") =>
          /\ last'.outcome = "ok"
          /\ init_flag' = FALSE
          /\ last.op = "close" =>
                /\ adapter' = adapter
                /\ game' = game
                /\ np_random' = np_random
                /\ lifecycle' = lifecycle
      ]_vars

\* close() called twice in succession.
C7_Witness ==
    /\ last.op = "close"
    /\ last.prev = "close"
    /\ last.outcome = "ok"
    /\ init_flag = FALSE

ReturnedObs ==
    IF last.op = "reset" /\ last.outcome = "ok" THEN <<last.ret>>
    ELSE IF StepReturned THEN <<last.ret.obs>>
    ELSE <<>>

\* C9: every observation record returned by reset() or step() has an
\* action_mask of NUM_ACTIONS entries, all 1, and to_play = -1.
C9_MaskAllOnesToPlayMinusOne ==
    \A o \in {ReturnedObs[i] : i \in 1 .. Len(ReturnedObs)} :
        /\ DOMAIN o.action_mask = 1 .. NUM_ACTIONS
        /\ \A i \in DOMAIN o.action_mask : o.action_mask[i] = 1
        /\ o.to_play = 0 - 1

\* A step has returned the engine's observation "s1".
C9_Witness ==
    /\ StepReturned
    /\ last.action.item = 1
    /\ last.ret.obs.observation = "s1"
    /\ last.ret.obs.to_play = 0 - 1

\* C10: a step() with an action outside [0, NUM_ACTIONS) hands the engine
\* that very index, and the engine's error ends the call: no timestep is
\* returned, the engine is asked once and has not moved, and nothing of the
\* adapter changes.
C10_OutOfRangeForwardedAndRaised ==
    [][ (Called("step") /\ ~InRange(last'.action.item)) =>
          /\ ScalarIndex(last'.forwarded) = Some(last'.action.item)
          /\ last'.outcome = "EngineError"
          /\ "ret" \notin DOMAIN last'
          /\ game' = game
          /\ adapter' = adapter
          /\ lifecycle' = lifecycle
      ]_vars

\* An out-of-range action given in mid-episode has raised.
C10_Witness ==
    /\ last.op = "step"
    /\ last.outcome = "EngineError"
    /\ last.action.item = NUM_ACTIONS
    /\ last.from = "Active"
    /\ eval_episode_return = Some(1)

\* C11: construction with a configuration that lacks replay_path raises and
\* yields no adapter: no space is declared, no engine exists and no method
\* can ever be called; construction with replay_path present, None included,
\* yields an adapter whose initialized flag is FALSE and whose replay path is
\* the configured value.
C11_ConstructionNeedsReplayPath ==
    IF "replay_path" \in DOMAIN cfg
    THEN /\ constructed
         /\ nops = 0 =>
              /\ last = [op |-> "__init__", outcome |-> "ok"]
              /\ init_flag = FALSE
              /\ replay_path = cfg.replay_path
              /\ game = NewGame
    ELSE /\ ~constructed
         /\ nops = 0
         /\ last = [op |-> "__init__", outcome |-> "AttributeError"]
         /\ observation_space.kind = "none"
         /\ action_space.kind = "none"
         /\ reward_space.kind = "none"
         /\ game # NewGame

\* The constructor has raised for the configuration without replay_path.
C11_Witness ==
    /\ "replay_path" \notin DOMAIN cfg
    /\ ~constructed
    /\ last.outcome = "AttributeError"

C13_ReplayPathOnlyByEnable ==
    [][ nops' = nops + 1 =>
          IF last'.op = "enable_save_replay"
          THEN /\ last'.outcome = "ok"
               /\ replay_path'
                    = IF last'.arg = "None" THEN "./video" ELSE last'.arg
               /\ UNCHANGED <<cfg, init_flag, continuous, observation_space,
                              action_space, reward_space, game,
                              eval_episode_return, seed_attr, dynamic_seed,
                              np_random, lifecycle, episode_rewards>>
          ELSE replay_path' = replay_path
      ]_vars

\* The default path has replaced a configured one and outlived a reset(),
\* a step() and a close().
C13_Witness ==
    /\ constructed
    /\ cfg.replay_path = "/cfg"
    /\ replay_path = "./video"
    /\ last.op = "close"
    /\ last.prev = "step"
    /\ HasAttr(eval_episode_return)

\* C14: every random_action() returns normally an array of shape (1,)
\* whose element lies in [0, NUM_ACTIONS), and leaves the accumulator, the
\* initialized flag and the engine as they were.
C14_RandomActionInRange ==
    [][ Called("random_action") =>
          /\ last'.outcome = "ok"
          /\ last'.ret.type = "ndarray"
          /\ last'.ret.shape = <<1>>
          /\ last'.ret.item \in 0 .. (NUM_ACTIONS - 1)
          /\ eval_episode_return' = eval_episode_return
          /\ init_flag' = init_flag
          /\ game' = game
          /\ lifecycle' = lifecycle
      ]_vars

\* random_action() has returned the highest action on a closed adapter that
\* had run an episode.
C14_Witness ==
    /\ last.op = "random_action"
    /\ last.ret = NdArray(<<1>>, NUM_ACTIONS - 1)
    /\ lifecycle = "Closed"
    /\ HasAttr(eval_episode_return)

\* C15: the declared observation space has size 1280 as long as no reset()
\* has run; every reset() declares size MAX_LINES * 64 and no other call
\* changes the observation space; the action space stays Discrete(NUM_ACTIONS)
\* and the reward space stays as constructed.
C15_SpacesChangeOnlyAtReset ==
    /\ [](constructed =>
            /\ ~HasAttr(eval_episode_return) =>
                  observation_space = [kind |-> "MultiBinary", n |-> 1280]
            /\ action_space.kind = "Discrete"
            /\ action_space.n = NUM_ACTIONS
            /\ reward_space = [kind |-> "Box", low |-> 0, high |-> 1])
    /\ [][ nops' = nops + 1 =>
             /\ IF last'.op = "reset"
                THEN observation_space'
                       = [kind |-> "MultiBinary", n |-> MAX_LINES * 64]
                ELSE observation_space' = observation_space
             /\ action_space'.kind = action_space.kind
             /\ action_space'.n = action_space.n
             /\ reward_space' = reward_space
         ]_vars

\* The size declared by reset() is in place after a later step().
C15_Witness ==
    /\ StepReturned
    /\ observation_space = [kind |-> "MultiBinary", n |-> MAX_LINES * 64]
    /\ game.episodes = 2

C17_EngineErrorLeavesAdapter ==
    [][ /\ (Called("step") /\ last'.outcome = "EngineError") =>
              /\ last'.before = eval_episode_return
              /\ adapter' = adapter
              /\ episode_rewards' = episode_rewards
              /\ lifecycle' = lifecycle
              /\ DOMAIN last' \cap {"ret", "reply"} = {}
        /\ (last.op = "step" /\ last.outcome = "EngineError"
              /\ Called("step") /\ last'.outcome = "ok") =>
              /\ eval_episode_return'
                    = Some(Val(last.before) + last'.reply.rew)
              /\ eval_episode_return' = Some(SumSeq(episode_rewards'))
      ]_vars

\* A rewarded step, a step the engine rejected, and a rewarded step again.
C17_Witness ==
    /\ StepReturned
    /\ last.prev_outcome = "EngineError"
    /\ last.reply.rew = 1
    /\ episode_rewards = <<1, 1>>
    /\ eval_episode_return = Some(2)

\* C18: a step() on an adapter on which reset() has never run raises and
\* returns no timestep, and still no accumulator exists; when the engine
\* accepts the action the error is the missing accumulator's, raised after
\* the engine has made the move.
C18_StepBeforeResetFailsLate ==
    [][ (Called("step") /\ ~HasAttr(eval_episode_return)) =>
          /\ last'.outcome # "ok"
          /\ "ret" \notin DOMAIN last'
          /\ ~HasAttr(eval_episode_return')
          /\ adapter' = adapter
          /\ lifecycle' = lifecycle
          /\ InRange(last'.action.item) =>
                /\ last'.outcome = "AttributeError"
                /\ ScalarIndex(last'.forwarded) = Some(last'.action.item)
                /\ game'.moves = game.moves + 1
      ]_vars

\* A freshly constructed adapter was stepped: the engine moved, the call
\* raised.
C18_Witness ==
    /\ last.op = "step"
    /\ last.outcome = "AttributeError"
    /\ last.from = "Uninitialized"
    /\ game = [episodes |-> 0, moves |-> 1]
    /\ ~HasAttr(eval_episode_return)

=============================================================================
